---------------------------- MODULE Spec2Model ----------------------------
(***************************************************************************)
(* A model of preprocess_msn.py: the conversion of Messenger Plus! HTML    *)
(* chat logs into JSON conversation files.                                 *)
(*                                                                         *)
(* Text is modelled as a sequence of characters, each character a string   *)
(* naming it: "a", " ", "(" ... and, for the characters outside ASCII that *)
(* the code's behaviour depends on, the code point: "U+0130" (capital I    *)
(* with dot above), "U+0307" (combining dot above), "U+2014" (em dash),    *)
(* "U+00E9" (e acute), "U+00FB" (u circumflex).                            *)
(***************************************************************************)
EXTENDS Integers, Sequences, FiniteSets, TLC

(***************************************************************************)
(* Characters and the string methods of Python the code uses.              *)
(***************************************************************************)

LowerLetters == <<"a","b","c","d","e","f","g","h","i","j","k","l","m",
                  "n","o","p","q","r","s","t","u","v","w","x","y","z">>

UpperLetters == <<"A","B","C","D","E","F","G","H","I","J","K","L","M",
                  "N","O","P","Q","R","S","T","U","V","W","X","Y","Z">>

DigitChars == <<"0","1","2","3","4","5","6","7","8","9">>

Range(f) == {f[i] : i \in DOMAIN f}

\* str.isspace / the regex class \s
Whitespace == {" ", "\t", "\n"}

\* The regex class \w of a str pattern: letters, digits and the underscore.
\* U+0307, a combining mark, is not in it.
WordChars ==
    Range(LowerLetters) \cup Range(UpperLetters) \cup Range(DigitChars)
        \cup {"_", "U+0130", "U+00E9", "U+00FB"}

IsWord(c) == c \in WordChars

IndexOf(f, c) == CHOOSE i \in DOMAIN f : f[i] = c

\* str.lower on one character. Python applies Unicode's full case mapping:
\* U+0130 lower-cases to the two characters "i" U+0307.
UpperCase == Range(UpperLetters)

LowerChar(c) ==
    IF c \in UpperCase THEN <<LowerLetters[IndexOf(UpperLetters, c)]>>
    ELSE IF c = "U+0130" THEN <<"i", "U+0307">>
    ELSE <<c>>

\* str.lower: a text with no upper-case character is its own lower case
RECURSIVE Lower(_)
Lower(s) ==
    IF \A i \in DOMAIN s : s[i] \notin UpperCase /\ s[i] # "U+0130" THEN s
    ELSE LowerChar(Head(s)) \o Lower(Tail(s))

RECURSIVE LStrip(_)
LStrip(s) == IF s # <<>> /\ Head(s) \in Whitespace THEN LStrip(Tail(s)) ELSE s

RECURSIVE RStrip(_)
RStrip(s) ==
    IF s # <<>> /\ s[Len(s)] \in Whitespace
    THEN RStrip(SubSeq(s, 1, Len(s) - 1)) ELSE s

\* str.strip()
Strip(s) == LStrip(RStrip(s))

\* str.rstrip(c) for a one-character argument
RECURSIVE RStripChar(_, _)
RStripChar(s, c) ==
    IF s # <<>> /\ s[Len(s)] = c
    THEN RStripChar(SubSeq(s, 1, Len(s) - 1), c) ELSE s

\* str.startswith
StartsWith(s, p) == Len(p) <= Len(s) /\ SubSeq(s, 1, Len(p)) = p

\* str.endswith
EndsWith(s, p) ==
    Len(p) <= Len(s) /\ SubSeq(s, Len(s) - Len(p) + 1, Len(s)) = p

\* p in s (the empty string is in every string)
IsSubstr(p, s) ==
    \E i \in 1..(Len(s) - Len(p) + 1) : SubSeq(s, i, i + Len(p) - 1) = p

\* str.replace(pat, rep): every non-overlapping occurrence, left to right
\* (pat is never empty in the code)
RECURSIVE Replace(_, _, _)
Replace(s, pat, rep) ==
    IF Len(s) < Len(pat) \/ s = <<>> THEN s
    ELSE IF StartsWith(s, pat)
         THEN rep \o Replace(SubSeq(s, Len(pat) + 1, Len(s)), pat, rep)
         ELSE <<Head(s)>> \o Replace(Tail(s), pat, rep)

\* str.split(' ')[0]: the text before the first space
RECURSIVE FirstToken(_)
FirstToken(s) ==
    IF s = <<>> \/ Head(s) = " " THEN <<>>
    ELSE <<Head(s)>> \o FirstToken(Tail(s))

\* the first index >= i at which s holds character c, 0 when there is none
RECURSIVE FindChar(_, _, _)
FindChar(s, c, i) ==
    IF i > Len(s) THEN 0
    ELSE IF s[i] = c THEN i ELSE FindChar(s, c, i + 1)

\* the index after the run of whitespace that starts at i (the greedy \s*)
RECURSIVE SkipWS(_, _)
SkipWS(s, i) ==
    IF i <= Len(s) /\ s[i] \in Whitespace THEN SkipWS(s, i + 1) ELSE i

\* the index at which the greedy .* that starts at i stops: the next line
\* break, or the end of the text
LineEnd(s, i) ==
    LET k == FindChar(s, "\n", i) IN IF k = 0 THEN Len(s) + 1 ELSE k

(***************************************************************************)
(* clean_display_name                                                      *)
(***************************************************************************)

\* Where a match of
\*     \s*[-U+2014].*  |  \s*\[.*?\]  |  \s*\([^)]+\)  |  \s*:\s*$
\* that starts at i ends (the index after it), 0 when none starts at i.
\* After the whitespace run the next character selects the one alternative
\* that can match.
SuffixMatchEnd(s, i) ==
    LET j == SkipWS(s, i) IN
    IF j > Len(s) THEN 0
    ELSE IF s[j] \in {"-", "U+2014"} THEN LineEnd(s, j + 1)
    ELSE IF s[j] = "["
         THEN LET k == FindChar(s, "]", j + 1) IN
              IF k # 0 /\ k < LineEnd(s, j + 1) THEN k + 1 ELSE 0
    ELSE IF s[j] = "("
         THEN LET k == FindChar(s, ")", j + 1) IN
              IF k > j + 1 THEN k + 1 ELSE 0
    ELSE IF s[j] = ":"
         THEN IF SkipWS(s, j + 1) > Len(s) THEN Len(s) + 1 ELSE 0
    ELSE 0

\* re.sub of that pattern by '': matches are removed left to right
RECURSIVE RemoveSuffixesFrom(_, _)
RemoveSuffixesFrom(s, i) ==
    IF i > Len(s) THEN <<>>
    ELSE LET e == SuffixMatchEnd(s, i) IN
         IF e # 0 THEN RemoveSuffixesFrom(s, e)
         ELSE <<s[i]>> \o RemoveSuffixesFrom(s, i + 1)

RemoveSuffixes(s) == RemoveSuffixesFrom(s, 1)

\* re.sub(r'[^\w\s]', '', s)
RemoveSpecial(s) == SelectSeq(s, LAMBDA c : IsWord(c) \/ c \in Whitespace)

\* re.sub(r'\s+', ' ', s)
RECURSIVE CollapseSpaces(_)
CollapseSpaces(s) ==
    IF s = <<>> THEN <<>>
    ELSE IF Head(s) \in Whitespace
         THEN <<" ">> \o CollapseSpaces(LStrip(s))
         ELSE <<Head(s)>> \o CollapseSpaces(Tail(s))

EntityLt == <<"&", "l", "t", ";">>
EntityGt == <<"&", "g", "t", ";">>

\* line 19
UnescapeEntities(s) ==
    Strip(Replace(Replace(s, EntityLt, <<"<">>), EntityGt, <<">">>))

\* line 25: the lower-casing comes last, after the special characters went
NormalizeCase(s) == Lower(Strip(CollapseSpaces(s)))

clean_display_name(display_name_text) ==
    LET cleaned1 == UnescapeEntities(display_name_text)
        cleaned2 == Strip(RemoveSuffixes(cleaned1))
        cleaned3 == Strip(RemoveSpecial(cleaned2))
    IN  NormalizeCase(cleaned3)


(***************************************************************************)
(* The participant map of one session (lines 69-108): a dict, which keeps  *)
(* its keys in insertion order, modelled as a sequence of key/id entries.  *)
(***************************************************************************)

HasKey(map, k) == \E i \in DOMAIN map : map[i].key = k

Lookup(map, k) == map[CHOOSE i \in DOMAIN map : map[i].key = k].id

Keys(map) == {map[i].key : i \in DOMAIN map}

\* A variant of Register in which the last registration of a key wins:
\* FirstWriteWins tells the two apart.
RegisterLastWins(map, name, id) ==
    IF name = <<>> THEN map
    ELSE IF \E i \in DOMAIN map : map[i].key = name
    THEN [i \in DOMAIN map |->
             IF map[i].key = name THEN [key |-> name, id |-> id] ELSE map[i]]
    ELSE Append(map, [key |-> name, id |-> id])

\* "if name and name not in canonical_participant_map: map[name] = id"
\* (lines 92-93, 97-98, 102-103, 107-108)
Register(map, name, id) ==
    IF name # <<>> /\ ~HasKey(map, name)
    THEN Append(map, [key |-> name, id |-> id])
    ELSE map

\* Whether text c, the inside of a pair of parentheses, matches
\*     [^)]+ @ [^)]+ \. [^)]+
LooksLikeEmail(c) ==
    \E a, b \in DOMAIN c :
        /\ c[a] = "@" /\ c[b] = "."
        /\ a >= 2 /\ b >= a + 2 /\ b <= Len(c) - 1

\* re.search(r'\(([^)]+@[^)]+\.[^)]+)\)', text).group(1) for a search from
\* index i on, <<>> when there is no match: the leftmost "(" whose text up
\* to the next ")" looks like an e-mail address
RECURSIVE IdentifierFrom(_, _)
IdentifierFrom(s, i) ==
    LET p == FindChar(s, "(", i) IN
    IF p = 0 THEN <<>>
    ELSE LET q == FindChar(s, ")", p + 1)
             c == IF q = 0 THEN <<>> ELSE SubSeq(s, p + 1, q - 1)
         IN  IF q # 0 /\ LooksLikeEmail(c) THEN c
             ELSE IdentifierFrom(s, p + 1)

IdentifierMatch(full_li_text) == IdentifierFrom(full_li_text, 1)

\* line 85
DisplayNamePart(full_li_text, group1) ==
    Strip(Replace(full_li_text, <<"(">> \o group1 \o <<")">>, <<>>))

\* lines 101 and 143
FirstWord(name_v2) == IF name_v2 # <<>> THEN FirstToken(name_v2) ELSE <<>>

\* One iteration of the loop over the roster's <li> (lines 75-108)
AddParticipant(map, full_li_text) ==
    LET group1 == IdentifierMatch(full_li_text) IN
    IF group1 # <<>>
    THEN LET primary_identifier == Lower(group1)
             display_name_part == DisplayNamePart(full_li_text, group1)
             name_v1 == Lower(display_name_part)
             name_v2 == clean_display_name(display_name_part)
             name_v3 == FirstWord(name_v2)
         IN  Register(Register(Register(map, name_v1, primary_identifier),
                               name_v2, primary_identifier),
                      name_v3, primary_identifier)
    ELSE LET cleaned_name == clean_display_name(full_li_text)
         IN  Register(map, cleaned_name, cleaned_name)

(***************************************************************************)
(* Attribution of a message's sender (lines 138-174)                       *)
(***************************************************************************)

\* line 138, from the text the sender cell renders once the time span is
\* taken out: .rstrip(':').strip()
SenderDisplayName(sender_text) == Strip(RStripChar(sender_text, ":"))

\* lines 138-143: the three versions of the sender's name
SenderNames(sender_text) ==
    LET sender_display_name_from_msg == SenderDisplayName(sender_text)
        sender_name_v2 == clean_display_name(sender_display_name_from_msg)
    IN  [v1 |-> Lower(sender_display_name_from_msg),
         v2 |-> sender_name_v2,
         v3 |-> FirstWord(sender_name_v2)]

\* A variant of FirstSubstringMatch in which the last such entry wins:
\* AttributionOrder tells the two apart.
LastSubstringMatch(map, sender_name_v2) ==
    LET hits == {i \in DOMAIN map :
                    \/ IsSubstr(map[i].key, sender_name_v2)
                    \/ IsSubstr(sender_name_v2, map[i].key)}
    IN  IF hits = {} THEN 0 ELSE CHOOSE i \in hits : \A j \in hits : j <= i

\* the index of the first entry, in insertion order, whose key is in
\* sender_name_v2 or holds it (lines 167-170), 0 when there is none
FirstSubstringMatch(map, sender_name_v2) ==
    LET hits == {i \in DOMAIN map :
                    \/ IsSubstr(map[i].key, sender_name_v2)
                    \/ IsSubstr(sender_name_v2, map[i].key)}
    IN  IF hits = {} THEN 0 ELSE CHOOSE i \in hits : \A j \in hits : i <= j

NotIdentified == [found |-> FALSE, id |-> <<>>, step |-> 0]

Identified(id, step) == [found |-> TRUE, id |-> id, step |-> step]

\* A variant of Identify without the lookup of the first token:
\* JaneDResolvesToJaneDoe tells the two apart.
IdentifyNoToken(map, sender_name_v1, sender_name_v2, sender_name_v3) ==
    IF HasKey(map, sender_name_v2)
    THEN Identified(Lookup(map, sender_name_v2), 1)
    ELSE IF HasKey(map, sender_name_v1)
    THEN Identified(Lookup(map, sender_name_v1), 3)
    ELSE LET i == FirstSubstringMatch(map, sender_name_v2) IN
         IF i # 0 THEN Identified(map[i].id, 4) ELSE NotIdentified

\* lines 156-170. step records which branch set the identifier.
Identify(map, sender_name_v1, sender_name_v2, sender_name_v3) ==
    IF HasKey(map, sender_name_v2)
    THEN Identified(Lookup(map, sender_name_v2), 1)
    ELSE IF HasKey(map, sender_name_v3)
    THEN Identified(Lookup(map, sender_name_v3), 2)
    ELSE IF HasKey(map, sender_name_v1)
    THEN Identified(Lookup(map, sender_name_v1), 3)
    ELSE LET i == FirstSubstringMatch(map, sender_name_v2) IN
         IF i # 0 THEN Identified(map[i].id, 4) ELSE NotIdentified

\* A variant of FromField that compares the identifiers as they are
\* written: LabelIsSelfIffSameIdentifier tells the two apart.
FromFieldCaseSensitive(identified, user_id) ==
    IF identified.found /\ identified.id # <<>>
       /\ user_id = identified.id
    THEN "gpt" ELSE "human"

\* lines 172-174
FromField(identified, user_id) ==
    IF identified.found /\ identified.id # <<>>
       /\ Lower(user_id) = Lower(identified.id)
    THEN "gpt" ELSE "human"

(***************************************************************************)
(* The session date (lines 48-67)                                          *)
(***************************************************************************)

IsDigit(c) == c \in Range(DigitChars)

DigitValue(c) == IndexOf(DigitChars, c) - 1

\* int() of a text of decimal digits
RECURSIVE ToInt(_)
ToInt(s) ==
    IF s = <<>> THEN 0
    ELSE 10 * ToInt(SubSeq(s, 1, Len(s) - 1)) + DigitValue(s[Len(s)])

\* the index after the run of \w characters that starts at i
RECURSIVE SkipWord(_, _)
SkipWord(s, i) == IF i <= Len(s) /\ IsWord(s[i]) THEN SkipWord(s, i + 1) ELSE i

\* Where a match of \d{1,2} \w+ \d{4} that starts at i ends (the index
\* after it), 0 when none starts at i
DateMatchEnd(s, i) ==
    IF i > Len(s) \/ ~IsDigit(s[i]) THEN 0
    ELSE LET j == IF i + 1 <= Len(s) /\ IsDigit(s[i + 1]) THEN i + 2 ELSE i + 1
             k == SkipWord(s, j + 1)
         IN  IF /\ k + 4 <= Len(s)
                /\ s[j] = " "
                /\ k > j + 1
                /\ s[k] = " "
                /\ \A d \in (k + 1)..(k + 4) : IsDigit(s[d])
             THEN k + 5 ELSE 0

\* re.search(r'\d{1,2} \w+ \d{4}', text).group(0) for a search from index i
\* on, <<>> when there is no match
RECURSIVE DateSearchFrom(_, _)
DateSearchFrom(s, i) ==
    IF i > Len(s) THEN <<>>
    ELSE LET e == DateMatchEnd(s, i) IN
         IF e # 0 THEN SubSeq(s, i, e - 1) ELSE DateSearchFrom(s, i + 1)

DateSearch(text) == DateSearchFrom(text, 1)

\* french_months, in the order of the dict (lines 56-61)
french_months == <<
    <<<<"j","a","n","v","i","e","r">>,
      <<"J","a","n","u","a","r","y">>>>,
    <<<<"f","U+00E9","v","r","i","e","r">>,
      <<"F","e","b","r","u","a","r","y">>>>,
    <<<<"m","a","r","s">>,
      <<"M","a","r","c","h">>>>,
    <<<<"a","v","r","i","l">>,
      <<"A","p","r","i","l">>>>,
    <<<<"m","a","i">>,
      <<"M","a","y">>>>,
    <<<<"j","u","i","n">>,
      <<"J","u","n","e">>>>,
    <<<<"j","u","i","l","l","e","t">>,
      <<"J","u","l","y">>>>,
    <<<<"a","o","U+00FB","t">>,
      <<"A","u","g","u","s","t">>>>,
    <<<<"s","e","p","t","e","m","b","r","e">>,
      <<"S","e","p","t","e","m","b","e","r">>>>,
    <<<<"o","c","t","o","b","r","e">>,
      <<"O","c","t","o","b","e","r">>>>,
    <<<<"n","o","v","e","m","b","r","e">>,
      <<"N","o","v","e","m","b","e","r">>>>,
    <<<<"d","U+00E9","c","e","m","b","r","e">>,
      <<"D","e","c","e","m","b","e","r">>>>
>>

\* lines 62-63: date_part.replace(fr, en) for each entry in turn
RECURSIVE TranslateFrom(_, _)
TranslateFrom(date_part, i) ==
    IF i > Len(french_months) THEN date_part
    ELSE TranslateFrom(Replace(date_part, french_months[i][1],
                               french_months[i][2]), i + 1)

TranslateMonths(date_part) == TranslateFrom(date_part, 1)

\* The month names %B accepts (the C locale's), lower-cased: strptime
\* compares without regard to case.
EnglishMonths == <<
    <<"j","a","n","u","a","r","y">>,
    <<"f","e","b","r","u","a","r","y">>,
    <<"m","a","r","c","h">>,
    <<"a","p","r","i","l">>,
    <<"m","a","y">>,
    <<"j","u","n","e">>,
    <<"j","u","l","y">>,
    <<"a","u","g","u","s","t">>,
    <<"s","e","p","t","e","m","b","e","r">>,
    <<"o","c","t","o","b","e","r">>,
    <<"n","o","v","e","m","b","e","r">>,
    <<"d","e","c","e","m","b","e","r">>
>>

IsLeap(year) == (year % 4 = 0 /\ year % 100 # 0) \/ year % 400 = 0

DaysInMonth(month, year) ==
    IF month = 2 THEN (IF IsLeap(year) THEN 29 ELSE 28)
    ELSE IF month \in {4, 6, 9, 11} THEN 30 ELSE 31

\* datetime.strptime(date_part, '%d %B %Y') on a text of the shape the
\* search gives, digits word digits: [ok |-> FALSE] stands for ValueError.
Strptime(date_part) ==
    LET sp1 == FindChar(date_part, " ", 1)
        sp2 == FindChar(date_part, " ", sp1 + 1)
        day == ToInt(SubSeq(date_part, 1, sp1 - 1))
        word == Lower(SubSeq(date_part, sp1 + 1, sp2 - 1))
        year == ToInt(SubSeq(date_part, sp2 + 1, Len(date_part)))
        months == {m \in DOMAIN EnglishMonths : EnglishMonths[m] = word}
    IN  IF months = {} \/ year < 1 THEN [ok |-> FALSE]
        ELSE LET month == CHOOSE m \in months : TRUE IN
             IF day >= 1 /\ day <= DaysInMonth(month, year)
             THEN [ok |-> TRUE, day |-> day, month |-> month, year |-> year]
             ELSE [ok |-> FALSE]

TwoDigits(n) == <<DigitChars[(n \div 10) + 1], DigitChars[(n % 10) + 1]>>

\* .strftime('%y.%m.%d')
Strftime(d) ==
    TwoDigits(d.year % 100) \o <<".">> \o TwoDigits(d.month) \o <<".">>
        \o TwoDigits(d.day)

UNKNOWN_DATE == <<"U","N","K","N","O","W","N","_","D","A","T","E">>

\* A variant of SessionDate that keeps the text of a date it cannot parse:
\* UnknownDateAndContinue tells the two apart.
SessionDateKeepingText(h2) ==
    IF ~h2.present THEN UNKNOWN_DATE
    ELSE LET date_str_match == DateSearch(h2.text) IN
         IF date_str_match = <<>> THEN UNKNOWN_DATE
         ELSE LET parsed == Strptime(TranslateMonths(date_str_match)) IN
              IF parsed.ok THEN Strftime(parsed) ELSE date_str_match

\* A session's heading: [present |-> FALSE] when the session has no <h2>,
\* else the heading's text. Lines 49-67.
SessionDate(h2) ==
    IF ~h2.present THEN UNKNOWN_DATE
    ELSE LET date_str_match == DateSearch(h2.text) IN
         IF date_str_match = <<>> THEN UNKNOWN_DATE
         ELSE LET parsed == Strptime(TranslateMonths(date_str_match)) IN
              IF parsed.ok THEN Strftime(parsed) ELSE UNKNOWN_DATE

(***************************************************************************)
(* One message row (lines 115-181)                                         *)
(***************************************************************************)

CountChar(s, c) == Cardinality({i \in DOMAIN s : s[i] = c})

\* lines 126-128
TimeStr(time_text) ==
    LET t == Replace(Replace(time_text, <<"(">>, <<>>), <<")">>, <<>>)
    IN  IF CountChar(t, ":") + 1 = 2 THEN t \o <<":", "0", "0">> ELSE t

\* line 129
FullTimestamp(date, time_str) == date \o <<",", " ">> \o time_str

PrefixHttp == <<"h","t","t","p",":","/","/">>
PrefixHttps == <<"h","t","t","p","s",":","/","/">>
PrefixPing == <<"p","i","n","g","?"," ","[","r","e","q","u","e","s","t","]">>

\* A variant of IsFiltered that does not lower-case the text: NoiseFilter
\* tells the two apart.
IsFilteredCaseSensitive(content_text) ==
    LET t == Strip(content_text) IN
    \/ StartsWith(t, PrefixHttp)
    \/ StartsWith(t, PrefixHttps)
    \/ StartsWith(t, PrefixPing)

\* lines 150-152
IsFiltered(content_text) ==
    LET t == Lower(Strip(content_text)) IN
    \/ StartsWith(t, PrefixHttp)
    \/ StartsWith(t, PrefixHttps)
    \/ StartsWith(t, PrefixPing)

(***************************************************************************)
(* Writing the conversations of one document (lines 189-203)               *)
(***************************************************************************)

\* "if len(conversations) > 40", "range(0, len(conversations), 40)",
\* "conversations[i:i+40]"
ChunkSize == 40

\* "if len(partial_conversations) < 3", "if len(conversations) < 3"
MinMessages == 3

Min(a, b) == IF a <= b THEN a ELSE b

\* str(i) for i >= 0
RECURSIVE Str(_)
Str(i) ==
    IF i < 10 THEN <<DigitChars[i + 1]>>
    ELSE Str(i \div 10) \o <<DigitChars[(i % 10) + 1]>>

DotJson == <<".", "j", "s", "o", "n">>

\* conversations[i:i+40]
Slice(conv, i) == SubSeq(conv, i + 1, Min(i + ChunkSize, Len(conv)))

\* json_file_path + str(i) + ".json"
ChunkPath(json_file_path, i) == json_file_path \o Str(i) \o DotJson

\* json_file_path + ".json"
SinglePath(json_file_path) == json_file_path \o DotJson

\* The file system as the save sees it: outdir maps each path of the output
\* folder that holds a file to the messages dumped there, dirs are the paths
\* of the output folder that are directories, raised tells that an open()
\* raised, wrote are the paths this save has written.
\* json.dump(..., open(path, 'w')): open raises for a directory; else the
\* file is created or overwritten.
WriteFile(fs, path, messages) ==
    IF path \in fs.dirs
    THEN [fs EXCEPT !.raised = TRUE]
    ELSE [fs EXCEPT
            !.outdir = [q \in DOMAIN fs.outdir \cup {path} |->
                           IF q = path THEN messages ELSE fs.outdir[q]],
            !.wrote = @ \cup {path}]

\* the loop of lines 191-197, from offset i on; an exception ends it
RECURSIVE SaveChunksFrom(_, _, _, _)
SaveChunksFrom(fs, json_file_path, conv, i) ==
    IF i >= Len(conv) THEN fs
    ELSE LET partial_conversations == Slice(conv, i) IN
         IF Len(partial_conversations) < MinMessages
         THEN SaveChunksFrom(fs, json_file_path, conv, i + ChunkSize)
         ELSE LET after == WriteFile(fs, ChunkPath(json_file_path, i),
                                     partial_conversations)
              IN  IF after.raised THEN after
                  ELSE SaveChunksFrom(after, json_file_path, conv,
                                      i + ChunkSize)

\* A variant of SaveConversations that splits from 40 messages on:
\* ChunkedSerialization tells the two apart.
SaveConversationsFromForty(fs, json_file_path, conv) ==
    IF Len(conv) >= ChunkSize
    THEN SaveChunksFrom(fs, json_file_path, conv, 0)
    ELSE IF Len(conv) < MinMessages THEN fs
    ELSE WriteFile(fs, SinglePath(json_file_path), conv)

\* lines 189-203
SaveConversations(fs, json_file_path, conv) ==
    IF Len(conv) > ChunkSize
    THEN SaveChunksFrom(fs, json_file_path, conv, 0)
    ELSE IF Len(conv) < MinMessages THEN fs
    ELSE WriteFile(fs, SinglePath(json_file_path), conv)

EmptyDir == [outdir |-> <<>>, dirs |-> {}, raised |-> FALSE, wrote |-> {}]

(***************************************************************************)
(* The inputs the model draws from                                         *)
(***************************************************************************)

\* "Session Start: 12 janvier 2005"
HeadingJanvier ==
    <<"S","e","s","s","i","o","n"," ","S","t","a","r","t",":"," ","1",
      "2"," ","j","a","n","v","i","e","r"," ","2","0","0","5">>

\* "31 f<U+00E9>vrier 2005"
HeadingFevrier31 ==
    <<"3","1"," ","f","U+00E9","v","r","i","e","r"," ","2","0","0","5">>

\* "hier soir"
HeadingNoDate ==
    <<"h","i","e","r"," ","s","o","i","r">>

NoTag == [present |-> FALSE, text |-> <<>>]

Tag(text) == [present |-> TRUE, text |-> text]

\* the <h2> of a session: absent, or one of the headings above
Headings ==
    {NoTag, Tag(HeadingJanvier), Tag(HeadingFevrier31), Tag(HeadingNoDate)}

\* "Jane Doe (jane.doe@example.com)"
EntryJaneDoe ==
    <<"J","a","n","e"," ","D","o","e"," ","(","j","a","n","e",".","d",
      "o","e","@","e","x","a","m","p","l","e",".","c","o","m",")">>

\* "Jane Smith (Jane.Smith@example.com)"
EntryJaneSmith ==
    <<"J","a","n","e"," ","S","m","i","t","h"," ","(","J","a","n","e",
      ".","S","m","i","t","h","@","e","x","a","m","p","l","e",".","c",
      "o","m",")">>

\* "-=- (AL@X.IO)"
EntryDashes ==
    <<"-","=","-"," ","(","A","L","@","X",".","I","O",")">>

\* "Bob"
EntryBob ==
    <<"B","o","b">>

\* the text of a roster <li>
RosterEntries == {EntryJaneDoe, EntryJaneSmith, EntryDashes, EntryBob}

\* the <li> of a session's <ul>, in document order (none when the session
\* has no <ul>)
Rosters ==
    {<<>>, <<EntryJaneDoe>>, <<EntryJaneSmith, EntryJaneDoe>>,
     <<EntryDashes, EntryBob>>, <<EntryBob, EntryJaneDoe>>}

\* "Jane D. :"
SenderJaneD ==
    <<"J","a","n","e"," ","D","."," ",":">>

\* "Jan"
SenderJan ==
    <<"J","a","n">>

\* "-=- :"
SenderDashes ==
    <<"-","=","-"," ",":">>

\* "BOB:"
SenderBob ==
    <<"B","O","B",":">>

\* "Zed"
SenderZed ==
    <<"Z","e","d">>

\* "Jane Doe:"
SenderJaneDoe == <<"J","a","n","e"," ","D","o","e",":">>

\* the text the <th> of a row renders once its time span is taken out
Senders ==
    {SenderJaneD, SenderJaneDoe, SenderJan, SenderDashes, SenderBob,
     SenderZed}

\* "hello"
ContentHello ==
    <<"h","e","l","l","o">>

\* "see http://x"
ContentMention ==
    <<"s","e","e"," ","h","t","t","p",":","/","/","x">>

\* "https://example.com"
ContentHttps ==
    <<"h","t","t","p","s",":","/","/","e","x","a","m","p","l","e",".",
      "c","o","m">>

\* " HTTP://x"
ContentHttpUpper ==
    <<" ","H","T","T","P",":","/","/","x">>

\* "Ping? [Request] 5"
ContentPing ==
    <<"P","i","n","g","?"," ","[","R","e","q","u","e","s","t","]"," ",
      "5">>

\* the text of a row's <td>
Contents ==
    {ContentHello, ContentMention, ContentHttps, ContentHttpUpper, ContentPing}

\* "(12:30)"
TimeMinutes ==
    <<"(","1","2",":","3","0",")">>

\* "(12:30:15)"
TimeSeconds ==
    <<"(","1","2",":","3","0",":","1","5",")">>

\* the text of a row's time span
Times == {TimeMinutes, TimeSeconds}

\* A <tr>: whether its class holds 'msgplus', and its time span, <th> and
\* <td>, each absent or with its text.
Row(msgplus, time, th, td) ==
    [msgplus |-> msgplus, time |-> time, th |-> th, td |-> td]

Message(time, sender, content) ==
    Row(FALSE, Tag(time), Tag(sender), Tag(content))

\* The rows the model reads: a status row, rows that lack one of the three
\* elements, messages the filter is about, and every sender with a text the
\* filter lets through.
Rows ==
    {Row(TRUE, Tag(TimeMinutes), Tag(SenderBob), Tag(ContentHello)),
     Row(FALSE, NoTag, Tag(SenderBob), Tag(ContentHello)),
     Row(FALSE, Tag(TimeMinutes), NoTag, Tag(ContentHello)),
     Row(FALSE, Tag(TimeMinutes), Tag(SenderBob), NoTag),
     Message(TimeMinutes, SenderBob, ContentHttps),
     Message(TimeSeconds, SenderJaneD, ContentHttpUpper),
     Message(TimeMinutes, SenderZed, ContentPing),
     Message(TimeSeconds, SenderJaneD, ContentMention)}
    \cup {Message(TimeMinutes, s, ContentHello) : s \in Senders}

\* The rows of a document in which one sender writes every message
RowsOfBob ==
    {Row(TRUE, Tag(TimeMinutes), Tag(SenderBob), Tag(ContentHello)),
     Row(FALSE, Tag(TimeMinutes), Tag(SenderBob), NoTag),
     Message(TimeMinutes, SenderBob, ContentHttps),
     Message(TimeSeconds, SenderBob, ContentHttpUpper),
     Message(TimeMinutes, SenderBob, ContentPing),
     Message(TimeSeconds, SenderBob, ContentMention),
     Message(TimeMinutes, SenderBob, ContentHello)}

\* "Jane.Doe@Example.com"
UserJane ==
    <<"J","a","n","e",".","D","o","e","@","E","x","a","m","p","l","e",
      ".","c","o","m">>

\* "BOB"
UserBob ==
    <<"B","O","B">>

\* the user_identifier of the command line
UserIdentifiers == {UserJane, UserBob}

\* "a.html"
FileA == <<"a", ".", "h", "t", "m", "l">>

\* "a40.html"
FileA40 == <<"a", "4", "0", ".", "h", "t", "m", "l">>

\* "b.html"
FileB == <<"b", ".", "h", "t", "m", "l">>

\* "notes.txt"
FileNotes == <<"n", "o", "t", "e", "s", ".", "t", "x", "t">>

\* the names os.listdir gives for the data folder
FileNames == {FileA, FileA40, FileB, FileNotes}

\* "a.json", a path of the output folder
PathAJson == <<"a", ".", "j", "s", "o", "n">>

\* How many messages a document's sessions yield, where the model does not
\* try every number
SampleSizes == {2, 3, 43}

(***************************************************************************)
(* Bounds of the model                                                     *)
(***************************************************************************)

\* sessions of a document
MaxSessions == 2

\* <tr> of a document
MaxRows == 2

\* <tr> of a document in which one sender writes every message
MaxRowsOfBob == 4

\* <li> of a roster read one at a time
MaxEntries == 3

\* files of the data folder
MaxFiles == 2

\* messages of a document, where the model tries every number
MaxMsgs == 86

\* characters of a display name, where the model tries every text
MaxNameLen == 2

(***************************************************************************)
(* State                                                                   *)
(***************************************************************************)

VARIABLES
    \* html_to_json on one document
    user_identifier,            \* the command line's argument
    pc,                         \* where html_to_json is
    session_h2,                 \* the <h2> of the session being read
    session_date,
    canonical_participant_map,
    session_conversations,
    conversations,
    saved,                      \* the file system after the save
    last_row,                   \* what the last loop iteration over a <tr> did
    rows_read,                  \* texts of the complete, non-status rows read
    session_roster,             \* the <li> of the session being read
    inputs,                     \* what the document is drawn from
    n_sessions, n_entries, n_rows,
    \* process_folder on the data folder
    folder_pc,                  \* where process_folder is
    listing,                    \* what is left of os.listdir(data_folder)
    unreadable,                 \* the files open() or the decoding fails on
    outdir,                     \* the files of the output folder
    dirs,                       \* the directories of the output folder
    sizes,                      \* the numbers of messages a document may hold
    found_html_files,
    last_doc,                   \* what the last call of html_to_json did
    written,                    \* <<file name, path>>: who wrote which file
    \* clean_display_name, applied to a text and to its own result
    name_pc,
    display_name_text,
    cleaned_once,
    cleaned_twice

doc_vars ==
    <<user_identifier, pc, session_h2, session_date,
      canonical_participant_map, session_conversations, conversations, saved,
      last_row, rows_read, session_roster, inputs, n_sessions, n_entries,
      n_rows>>

folder_vars ==
    <<folder_pc, listing, unreadable, outdir, dirs, sizes, found_html_files,
      last_doc, written>>

name_vars == <<name_pc, display_name_text, cleaned_once, cleaned_twice>>

vars == <<doc_vars, folder_vars, name_vars>>

\* the path html_to_json is given for the document's output, in the output
\* folder
DocPath == <<"l", "o", "g">>

NoRow ==
    [kind |-> "none", row |-> [msgplus |-> FALSE, time |-> NoTag,
                               th |-> NoTag, td |-> NoTag],
     full_timestamp |-> <<>>,
     sender_name_v1 |-> <<>>, sender_name_v2 |-> <<>>,
     sender_name_v3 |-> <<>>,
     identified |-> NotIdentified, from |-> ""]

NoDoc ==
    [filename |-> <<>>, conversations |-> <<>>, wrote |-> {},
     raised |-> FALSE]

\* The documents of the model: any heading, roster and row above, at most
\* MaxRows rows
AnyDocument ==
    [users |-> UserIdentifiers, headings |-> Headings, rosters |-> Rosters,
     rows |-> Rows, max_rows |-> MaxRows]

\* The documents in which Bob, the user, writes every message: longer ones,
\* at most MaxRowsOfBob rows
DocumentOfBob ==
    [users |-> {UserBob}, headings |-> {Tag(HeadingJanvier)},
     rosters |-> {<<EntryBob>>}, rows |-> RowsOfBob,
     max_rows |-> MaxRowsOfBob]

\* what a document is drawn from, by the value of inputs
Drawn == [any |-> AnyDocument, bob |-> DocumentOfBob]

\* html_to_json is entered with a user identifier (lines 33-34)
InitDocument ==
    /\ inputs = "any"
    /\ user_identifier \in Drawn[inputs].users
    /\ session_roster = <<>>
    /\ pc = "sessions"
    /\ session_h2 = NoTag
    /\ session_date = UNKNOWN_DATE
    /\ canonical_participant_map = <<>>
    /\ session_conversations = <<>>
    /\ conversations = <<>>
    /\ saved = EmptyDir
    /\ last_row = NoRow
    /\ rows_read = <<>>
    /\ n_sessions = 0
    /\ n_entries = 0
    /\ n_rows = 0

InitDocumentOfBob ==
    /\ inputs = "bob"
    /\ user_identifier \in Drawn[inputs].users
    /\ session_roster = <<>>
    /\ pc = "sessions"
    /\ session_h2 = NoTag
    /\ session_date = UNKNOWN_DATE
    /\ canonical_participant_map = <<>>
    /\ session_conversations = <<>>
    /\ conversations = <<>>
    /\ saved = EmptyDir
    /\ last_row = NoRow
    /\ rows_read = <<>>
    /\ n_sessions = 0
    /\ n_entries = 0
    /\ n_rows = 0

NoDocument ==
    /\ inputs = "any"
    /\ user_identifier = UserJane
    /\ session_roster = <<>>
    /\ pc = "off"
    /\ session_h2 = NoTag
    /\ session_date = UNKNOWN_DATE
    /\ canonical_participant_map = <<>>
    /\ session_conversations = <<>>
    /\ conversations = <<>>
    /\ saved = EmptyDir
    /\ last_row = NoRow
    /\ rows_read = <<>>
    /\ n_sessions = 0
    /\ n_entries = 0
    /\ n_rows = 0

\* the sequences of at most n different elements of S
RECURSIVE Listings(_, _)
Listings(S, n) ==
    IF n = 0 THEN {<<>>}
    ELSE LET shorter == Listings(S, n - 1)
             longer == {Append(l, f) : l \in shorter, f \in S}
         IN  shorter \cup
                 {l \in longer : \A i, j \in DOMAIN l : i # j => l[i] # l[j]}

\* process_folder is entered (lines 210-216) with a data folder of at most
\* MaxFiles files, some of them unreadable, and an output folder that holds
\* no file yet and maybe a directory named a.json
InitFolder ==
    /\ folder_pc = "listing"
    /\ listing \in Listings(FileNames, MaxFiles)
    /\ unreadable \in {{}, {FileB}}
    /\ outdir = <<>>
    /\ dirs \in {{}, {PathAJson}}
    /\ sizes = SampleSizes
    /\ found_html_files = FALSE
    /\ last_doc = NoDoc
    /\ written = {}

\* process_folder is entered with a data folder of one file and an empty
\* output folder; the document holds any number of messages up to MaxMsgs
InitOneFile ==
    /\ folder_pc = "listing"
    /\ listing \in Listings(FileNames, 1)
    /\ unreadable \in {{}, {FileB}}
    /\ outdir = <<>>
    /\ dirs = {}
    /\ sizes = 0..MaxMsgs
    /\ found_html_files = FALSE
    /\ last_doc = NoDoc
    /\ written = {}

NoFolder ==
    /\ folder_pc = "off"
    /\ listing = <<>>
    /\ unreadable = {}
    /\ outdir = <<>>
    /\ dirs = {}
    /\ sizes = {}
    /\ found_html_files = FALSE
    /\ last_doc = NoDoc
    /\ written = {}

\* the characters of the display names the model tries
NameChars ==
    {"a", "J", " ", "-", "(", ")", "[", "]", ":", ".", "&", "_", "U+0130"}

\* every text of at most MaxNameLen of these characters, and the names of
\* the rosters and senders above
NameTexts ==
    UNION {[1..k -> NameChars] : k \in 0..MaxNameLen}
        \cup RosterEntries \cup Senders

InitNames ==
    /\ name_pc = "text"
    /\ display_name_text \in NameTexts
    /\ cleaned_once = <<>>
    /\ cleaned_twice = <<>>

NoName ==
    /\ name_pc = "off"
    /\ display_name_text = <<>>
    /\ cleaned_once = <<>>
    /\ cleaned_twice = <<>>

Init == InitDocument /\ NoFolder /\ NoName

(***************************************************************************)
(* html_to_json, one loop iteration at a time                              *)
(***************************************************************************)

\* The loop over a roster's <li> (lines 73-108)
RECURSIVE BuildMap(_, _)
BuildMap(map, roster) ==
    IF roster = <<>> THEN map
    ELSE BuildMap(AddParticipant(map, Head(roster)), Tail(roster))

\* The dates and the maps of the headings and rosters the model reads,
\* computed once
SessionDates == [h2 \in Headings |-> SessionDate(h2)]

ParticipantMaps ==
    [roster \in Rosters \cup {<<EntryBob>>} |-> BuildMap(<<>>, roster)]

\* The head of the loop over the sessions (line 47), the session's date
\* (lines 48-67) and its participant map (lines 71-110)
BeginSession ==
    /\ pc = "sessions"
    /\ n_sessions < MaxSessions
    /\ \E h2 \in Drawn[inputs].headings :
          /\ session_h2' = h2
          /\ session_date' = SessionDates[h2]
    /\ \E roster \in Drawn[inputs].rosters :
          /\ session_roster' = roster
          /\ canonical_participant_map' = ParticipantMaps[roster]
    /\ session_conversations' = <<>>
    /\ n_sessions' = n_sessions + 1
    /\ pc' = "rows"
    /\ last_row' = NoRow
    /\ UNCHANGED <<user_identifier, conversations, saved, rows_read, inputs,
                   n_rows, n_entries>>
    /\ UNCHANGED <<folder_vars, name_vars>>

\* The texts of the rows the model reads, processed once: the time
\* (lines 126-128), the sender's names (lines 138-143) and the filter's
\* verdict (lines 150-152)
TimeStrOf == [t \in Times |-> TimeStr(t)]

SenderNamesOf == [s \in Senders |-> SenderNames(s)]

IsFilteredOf == [c \in Contents |-> IsFiltered(c)]

\* What one iteration of the loop over the rows (lines 115-181) does with
\* row: the record of it, kept in last_row.
RowResult(row, date, map, user_id) ==
    IF row.msgplus THEN [NoRow EXCEPT !.kind = "status", !.row = row]
    ELSE IF ~(row.time.present /\ row.th.present /\ row.td.present)
    THEN [NoRow EXCEPT !.kind = "incomplete", !.row = row]
    ELSE LET full_timestamp ==
                 FullTimestamp(date, TimeStrOf[row.time.text])
             names == SenderNamesOf[row.th.text]
         IN  IF IsFilteredOf[row.td.text]
             THEN [NoRow EXCEPT !.kind = "filtered", !.row = row,
                                !.full_timestamp = full_timestamp,
                                !.sender_name_v1 = names.v1,
                                !.sender_name_v2 = names.v2,
                                !.sender_name_v3 = names.v3]
             ELSE LET identified ==
                          Identify(map, names.v1, names.v2, names.v3)
                  IN  [kind |-> "kept", row |-> row,
                       full_timestamp |-> full_timestamp,
                       sender_name_v1 |-> names.v1,
                       sender_name_v2 |-> names.v2,
                       sender_name_v3 |-> names.v3,
                       identified |-> identified,
                       from |-> FromField(identified, user_id)]

\* One iteration of the loop over the rows (lines 115-181)
ReadRow ==
    /\ pc = "rows"
    /\ n_rows < Drawn[inputs].max_rows
    /\ \E row \in Drawn[inputs].rows :
          LET r == RowResult(row, session_date, canonical_participant_map,
                             user_identifier)
          IN  /\ last_row' = r
              /\ session_conversations' =
                    IF r.kind = "kept"
                    THEN Append(session_conversations,
                                [from |-> r.from, value |-> row.td.text])
                    ELSE session_conversations
              /\ rows_read' =
                    IF /\ ~row.msgplus
                       /\ row.time.present /\ row.th.present /\ row.td.present
                    THEN Append(rows_read, row.td.text)
                    ELSE rows_read
    /\ n_rows' = n_rows + 1
    /\ UNCHANGED <<user_identifier, pc, session_h2, session_date,
                   canonical_participant_map, conversations, saved,
                   session_roster, inputs, n_sessions, n_entries>>
    /\ UNCHANGED <<folder_vars, name_vars>>

\* The end of a session (lines 183-185). What belongs to the session alone
\* (its heading, date, roster, map and list of messages, all of them set
\* anew by the next session before they are read) is forgotten.
EndSession ==
    /\ pc = "rows"
    /\ conversations' =
          IF session_conversations # <<>>
          THEN conversations \o session_conversations
          ELSE conversations
    /\ pc' = "sessions"
    /\ last_row' = NoRow
    /\ session_h2' = NoTag
    /\ session_date' = UNKNOWN_DATE
    /\ session_roster' = <<>>
    /\ canonical_participant_map' = <<>>
    /\ session_conversations' = <<>>
    /\ UNCHANGED <<user_identifier, saved, rows_read, inputs, n_sessions,
                   n_entries, n_rows>>
    /\ UNCHANGED <<folder_vars, name_vars>>

\* After the last session: the save (lines 187-203), into an output folder
\* that holds nothing yet
Save ==
    /\ pc = "sessions"
    /\ saved' = SaveConversations(EmptyDir, DocPath, conversations)
    /\ pc' = "done"
    /\ UNCHANGED <<user_identifier, session_h2, session_date,
                   canonical_participant_map, session_conversations,
                   conversations, last_row, rows_read, session_roster, inputs,
                   n_sessions, n_entries, n_rows>>
    /\ UNCHANGED <<folder_vars, name_vars>>

Next ==
    \/ BeginSession
    \/ ReadRow
    \/ EndSession
    \/ Save

Spec == Init /\ [][Next]_vars

\* documents in which Bob, the user, writes every message
InitOfBob == InitDocumentOfBob /\ NoFolder /\ NoName

SpecOfBob == InitOfBob /\ [][Next]_vars

(***************************************************************************)
(* The roster of a session, one <li> at a time                             *)
(***************************************************************************)

\* line 71: a session starts with an empty map
StartRoster ==
    /\ pc = "sessions"
    /\ n_sessions < MaxSessions
    /\ canonical_participant_map' = <<>>
    /\ session_roster' = <<>>
    /\ n_sessions' = n_sessions + 1
    /\ n_entries' = 0
    /\ pc' = "roster"
    /\ UNCHANGED <<user_identifier, session_h2, session_date,
                   session_conversations, conversations, saved, last_row,
                   rows_read, inputs, n_rows>>
    /\ UNCHANGED <<folder_vars, name_vars>>

\* One iteration of the loop over the roster (lines 75-108)
ReadParticipant ==
    /\ pc = "roster"
    /\ n_entries < MaxEntries
    /\ \E full_li_text \in RosterEntries :
          /\ canonical_participant_map' =
                AddParticipant(canonical_participant_map, full_li_text)
          /\ session_roster' = Append(session_roster, full_li_text)
    /\ n_entries' = n_entries + 1
    /\ UNCHANGED <<user_identifier, pc, session_h2, session_date,
                   session_conversations, conversations, saved, last_row,
                   rows_read, inputs, n_sessions, n_rows>>
    /\ UNCHANGED <<folder_vars, name_vars>>

\* The rest of the session (lines 110-185) leaves the map as it is
EndRoster ==
    /\ pc = "roster"
    /\ pc' = "sessions"
    /\ UNCHANGED <<user_identifier, session_h2, session_date,
                   canonical_participant_map, session_conversations,
                   conversations, saved, last_row, rows_read, session_roster,
                   inputs, n_sessions, n_entries, n_rows>>
    /\ UNCHANGED <<folder_vars, name_vars>>

NextRoster ==
    \/ StartRoster
    \/ ReadParticipant
    \/ EndRoster

SpecRoster == Init /\ [][NextRoster]_vars

(***************************************************************************)
(* process_folder (lines 206-227), one file at a time                      *)
(***************************************************************************)

DotHtml == <<".", "h", "t", "m", "l">>

\* the last index at which s holds character c, 0 when there is none
LastIndexOf(s, c) ==
    LET at == {i \in DOMAIN s : s[i] = c} IN
    IF at = {} THEN 0 ELSE CHOOSE i \in at : \A j \in at : j <= i

\* os.path.splitext(filename)[0] for a name without a separator: the name
\* up to its last dot, unless only dots come before that dot
SplitextRoot(filename) ==
    LET dot == LastIndexOf(filename, ".") IN
    IF dot # 0 /\ \E i \in 1..(dot - 1) : filename[i] # "."
    THEN SubSeq(filename, 1, dot - 1)
    ELSE filename

\* The n messages the sessions of a document yield (lines 44-187), told
\* apart by their document and their place in it
Messages(filename, n) == [i \in 1..n |-> <<filename, i>>]

\* line 218 is false: the file is passed over
SkipFile ==
    /\ folder_pc = "listing"
    /\ listing # <<>>
    /\ ~EndsWith(Head(listing), DotHtml)
    /\ listing' = Tail(listing)
    /\ UNCHANGED <<folder_pc, unreadable, outdir, dirs, sizes,
                   found_html_files, last_doc, written>>
    /\ UNCHANGED <<doc_vars, name_vars>>

\* html_to_json on a file it cannot open or decode (lines 36-42): the
\* exception is caught, the error printed, and the call returns
SkipUnreadable ==
    /\ folder_pc = "listing"
    /\ listing # <<>>
    /\ EndsWith(Head(listing), DotHtml)
    /\ Head(listing) \in unreadable
    /\ listing' = Tail(listing)
    /\ found_html_files' = TRUE
    /\ last_doc' = [NoDoc EXCEPT !.filename = Head(listing)]
    /\ UNCHANGED <<folder_pc, unreadable, outdir, dirs, sizes, written>>
    /\ UNCHANGED <<doc_vars, name_vars>>

\* html_to_json on a file it can read (lines 219-224 and 28-203): the save
\* of its messages; an exception of the save leaves process_folder
ConvertFile ==
    /\ folder_pc = "listing"
    /\ listing # <<>>
    /\ EndsWith(Head(listing), DotHtml)
    /\ Head(listing) \notin unreadable
    /\ \E n \in sizes :
          LET filename == Head(listing)
              conv == Messages(filename, n)
              fs == SaveConversations(
                        [outdir |-> outdir, dirs |-> dirs, raised |-> FALSE,
                         wrote |-> {}],
                        SplitextRoot(filename), conv)
          IN  /\ outdir' = fs.outdir
              /\ folder_pc' = IF fs.raised THEN "aborted" ELSE "listing"
              /\ last_doc' = [filename |-> filename, conversations |-> conv,
                              wrote |-> fs.wrote, raised |-> fs.raised]
              /\ written' = written \cup {<<filename, q>> : q \in fs.wrote}
    /\ listing' = Tail(listing)
    /\ found_html_files' = TRUE
    /\ UNCHANGED <<unreadable, dirs, sizes>>
    /\ UNCHANGED <<doc_vars, name_vars>>

\* The listing is exhausted (lines 226-227)
FinishFolder ==
    /\ folder_pc = "listing"
    /\ listing = <<>>
    /\ folder_pc' = "done"
    /\ UNCHANGED <<listing, unreadable, outdir, dirs, sizes,
                   found_html_files, last_doc, written>>
    /\ UNCHANGED <<doc_vars, name_vars>>

NextFolder ==
    \/ SkipFile
    \/ SkipUnreadable
    \/ ConvertFile
    \/ FinishFolder

\* a data folder of several files
FolderInit == NoDocument /\ InitFolder /\ NoName

SpecFolder == FolderInit /\ [][NextFolder]_vars

\* a data folder of one file, with every number of messages
SaveInit == NoDocument /\ InitOneFile /\ NoName

SpecSave == SaveInit /\ [][NextFolder]_vars

(***************************************************************************)
(* clean_display_name on its own result                                    *)
(***************************************************************************)

CleanOnce ==
    /\ name_pc = "text"
    /\ cleaned_once' = clean_display_name(display_name_text)
    /\ name_pc' = "once"
    /\ UNCHANGED <<display_name_text, cleaned_twice>>
    /\ UNCHANGED <<doc_vars, folder_vars>>

CleanTwice ==
    /\ name_pc = "once"
    /\ cleaned_twice' = clean_display_name(cleaned_once)
    /\ name_pc' = "twice"
    /\ UNCHANGED <<display_name_text, cleaned_once>>
    /\ UNCHANGED <<doc_vars, folder_vars>>

NextNames ==
    \/ CleanOnce
    \/ CleanTwice

NamesInit == NoDocument /\ NoFolder /\ InitNames

SpecNames == NamesInit /\ [][NextNames]_vars


(***************************************************************************)
(* Properties                                                              *)
(***************************************************************************)

\* "jane", "jane d", "jane doe"
KeyJane == <<"j","a","n","e">>

KeyJaneD == <<"j","a","n","e"," ","d">>

KeyJaneDoe == <<"j","a","n","e"," ","d","o","e">>

\* "jane.doe@example.com"
IdJaneDoe ==
    <<"j","a","n","e",".","d","o","e","@","e","x","a","m","p","l","e",
      ".","c","o","m">>

\* "jane.smith@example.com"
IdJaneSmith ==
    <<"j","a","n","e",".","s","m","i","t","h","@","e","x","a","m","p",
      "l","e",".","c","o","m">>

\* the offsets 0, 40, 80, ... below n
OffsetsBelow(n) == {i \in 0..(n - 1) : i % 40 = 0}

\* the messages [i, i+40) of conv
MessagesFrom(conv, i) ==
    [k \in 1..(IF i + 40 <= Len(conv) THEN 40 ELSE Len(conv) - i) |->
        conv[i + k]]

\* '<base><i>.json' and '<base>.json'
BaseOffsetJson(base, i) == base \o Str(i) \o <<".","j","s","o","n">>

BaseJson(base) == base \o <<".","j","s","o","n">>

\* C1: a document with n retained messages writes no file when n < 3; one
\* file '<base>.json' with all n messages in order when 3 <= n <= 40; and
\* when n > 40, for every offset i in {0, 40, 80, ...} below n, the messages
\* [i, i+40) in order in '<base><i>.json' if and only if they are at least
\* 3. So every file written holds from 3 to 40 messages, only the last
\* slice can be dropped, 85 messages give files of 40, 40 and 5 messages and
\* 41 messages give one file of 40.
ChunkedSerialization ==
    last_doc.filename # <<>> /\ ~last_doc.raised =>
        LET conv == last_doc.conversations
            n == Len(conv)
            base == SplitextRoot(last_doc.filename)
            kept == {i \in OffsetsBelow(n) : Len(MessagesFrom(conv, i)) >= 3}
        IN  /\ n < 3 => last_doc.wrote = {}
            /\ n >= 3 /\ n <= 40 =>
                  /\ last_doc.wrote = {BaseJson(base)}
                  /\ outdir[BaseJson(base)] = conv
            /\ n > 40 =>
                  /\ last_doc.wrote = {BaseOffsetJson(base, i) : i \in kept}
                  /\ \A i \in kept :
                        outdir[BaseOffsetJson(base, i)] =
                            MessagesFrom(conv, i)
                  /\ \A i \in OffsetsBelow(n) : i + 40 < n => i \in kept
            /\ \A q \in last_doc.wrote :
                  Len(outdir[q]) >= 3 /\ Len(outdir[q]) <= 40
            /\ n = 85 =>
                  /\ Cardinality(last_doc.wrote) = 3
                  /\ Len(outdir[BaseOffsetJson(base, 0)]) = 40
                  /\ Len(outdir[BaseOffsetJson(base, 40)]) = 40
                  /\ Len(outdir[BaseOffsetJson(base, 80)]) = 5
            /\ n = 41 =>
                  /\ last_doc.wrote = {BaseOffsetJson(base, 0)}
                  /\ Len(outdir[BaseOffsetJson(base, 0)]) = 40

\* a document of 85 messages has been saved in three files
EightyFiveInThreeFiles ==
    /\ ~last_doc.raised
    /\ Len(last_doc.conversations) = 85
    /\ Cardinality(last_doc.wrote) = 3

\* C2: a retained message is labelled 'gpt' if and only if attribution
\* resolved an identifier and that identifier equals the user's identifier
\* once both are lower-cased; in every other case, the one with no
\* identifier resolved too, it is labelled 'human'.
LabelIsSelfIffSameIdentifier ==
    /\ last_row.kind = "kept" =>
          LET resolved == last_row.identified
              message == session_conversations[Len(session_conversations)]
              self == /\ resolved.found
                      /\ Lower(resolved.id) = Lower(user_identifier)
          IN  /\ session_conversations # <<>>
              /\ message.value = last_row.row.td.text
              /\ message.from = last_row.from
              /\ self => message.from = "gpt"
              /\ ~self => message.from = "human"
    /\ \A i \in DOMAIN conversations :
          conversations[i].from \in {"gpt", "human"}

\* a message is labelled 'gpt' though its identifier is not written as the
\* user's
SelfInAnotherCase ==
    /\ last_row.kind = "kept"
    /\ last_row.from = "gpt"
    /\ last_row.identified.id # user_identifier

\* the identifier of key in map, a sequence of distinct keys
ValueOf(map, key) ==
    (CHOOSE entry \in {map[i] : i \in DOMAIN map} : entry.key = key).id

\* the places of map whose key is in name or holds name
SubstringPlaces(map, name) ==
    {i \in DOMAIN map :
        IsSubstr(map[i].key, name) \/ IsSubstr(name, map[i].key)}

\* C3: attribution against the session's map is ordered, first match wins:
\* the heavily-normalized sender name as a key, else its first token as a
\* key, else the lower-cased sender name as a key, else the first key in
\* insertion order that is a substring of the heavily-normalized name or
\* holds it. The identifier is undefined exactly when none of the four
\* matches, as with an empty map.
AttributionOrder ==
    last_row.kind = "kept" =>
        LET map == canonical_participant_map
            keys == {map[i].key : i \in DOMAIN map}
            heavy == last_row.sender_name_v2
            token == last_row.sender_name_v3
            light == last_row.sender_name_v1
            places == SubstringPlaces(map, heavy)
            resolved == last_row.identified
        IN  /\ heavy \in keys =>
                  /\ resolved.found /\ resolved.step = 1
                  /\ resolved.id = ValueOf(map, heavy)
            /\ heavy \notin keys /\ token \in keys =>
                  /\ resolved.found /\ resolved.step = 2
                  /\ resolved.id = ValueOf(map, token)
            /\ heavy \notin keys /\ token \notin keys /\ light \in keys =>
                  /\ resolved.found /\ resolved.step = 3
                  /\ resolved.id = ValueOf(map, light)
            /\ /\ heavy \notin keys /\ token \notin keys /\ light \notin keys
               /\ places # {}
               => /\ resolved.found /\ resolved.step = 4
                  /\ \E i \in places :
                        /\ \A j \in places : i <= j
                        /\ resolved.id = map[i].id
            /\ /\ heavy \notin keys /\ token \notin keys /\ light \notin keys
               /\ places = {}
               => ~resolved.found
            /\ ~resolved.found =>
                  /\ heavy \notin keys /\ token \notin keys
                  /\ light \notin keys /\ places = {}
            /\ map = <<>> => ~resolved.found

\* the substring fallback has chosen among keys of different identifiers
FallbackAmongSeveral ==
    /\ last_row.kind = "kept"
    /\ last_row.identified.step = 4
    /\ \E i, j \in SubstringPlaces(canonical_participant_map,
                                  last_row.sender_name_v2) :
          canonical_participant_map[i].id # canonical_participant_map[j].id

\* C4: while the entries of one session's roster are processed, the map is
\* first-write-wins: a key that is present keeps its identifier (and its
\* place) through every later insertion, and an insertion with an empty
\* key or with a key already present leaves the map as it is.
FirstWriteWins ==
    [][pc = "roster" /\ pc' = "roster" =>
          LET old == canonical_participant_map
              new == canonical_participant_map'
          IN  /\ Len(new) >= Len(old)
              /\ \A i \in DOMAIN old : new[i] = old[i]
              /\ \A i \in DOMAIN new \ DOMAIN old :
                    /\ new[i].key # <<>>
                    /\ \A j \in DOMAIN new : j # i => new[j].key # new[i].key
      ]_vars

\* the key 'jane' is Jane Smith's after Jane Doe's entry has been read
JaneStaysJaneSmith ==
    /\ pc = "roster"
    /\ session_roster = <<EntryJaneSmith, EntryJaneDoe>>
    /\ \E i \in DOMAIN canonical_participant_map :
          /\ canonical_participant_map[i].key = KeyJane
          /\ canonical_participant_map[i].id = IdJaneSmith
    /\ \E i \in DOMAIN canonical_participant_map :
          canonical_participant_map[i].key = KeyJaneDoe

\* C5: no exception raised while one document is processed, the writing of
\* its output files included, leaves that document's html_to_json call:
\* process_folder goes on with the files that remain.
BatchSurvivesEveryDocument ==
    last_doc.raised => folder_pc # "aborted"

\* the texts the filter is about
IsNoise(content_text) ==
    LET t == Lower(Strip(content_text)) IN
    \/ StartsWith(t, <<"h","t","t","p",":","/","/">>)
    \/ StartsWith(t, <<"h","t","t","p","s",":","/","/">>)
    \/ StartsWith(t, <<"p","i","n","g","?"," ","[","r","e","q","u","e",
                       "s","t","]">>)

IsNotNoise(content_text) == ~IsNoise(content_text)

\* C6: a message whose text, trimmed and lower-cased, begins with
\* 'http://', 'https://' or 'ping? [request]' is discarded before
\* attribution and is in no output file; every other message of a
\* well-formed row that is no status row is retained: the retained
\* sequence is the sequence of the well-formed rows, in document order,
\* without the filtered ones.
NoiseFilter ==
    LET retained == conversations \o session_conversations IN
    /\ [i \in DOMAIN retained |-> retained[i].value] =
          SelectSeq(rows_read, IsNotNoise)
    /\ last_row.kind = "filtered" =>
          /\ IsNoise(last_row.row.td.text)
          /\ last_row.identified = NotIdentified
    /\ last_row.kind = "kept" => ~IsNoise(last_row.row.td.text)
    /\ pc = "done" =>
          \A q \in saved.wrote : \A i \in DOMAIN saved.outdir[q] :
              /\ ~IsNoise(saved.outdir[q][i].value)
              /\ saved.outdir[q][i] = conversations[i]

\* a document with a filtered message has been saved
SavedWithoutNoise ==
    /\ pc = "done"
    /\ saved.wrote # {}
    /\ \E i \in DOMAIN rows_read : IsNoise(rows_read[i])
    /\ \E i \in DOMAIN rows_read : rows_read[i] = ContentHttpUpper

\* C7: clean_display_name(clean_display_name(s)) = clean_display_name(s)
\* for every text s.
CleanDisplayNameIdempotent ==
    name_pc = "twice" => cleaned_twice = cleaned_once

\* the headings without a date that parses: none, one without the shape
\* 'day month-name year', one that is no date of the calendar
UnparseableHeadings == {NoTag, Tag(HeadingNoDate), Tag(HeadingFevrier31)}

\* "05.01.12", the date of the heading "12 janvier 2005"
TwelfthOfJanuary == <<"0","5",".","0","1",".","1","2">>

\* C8: a session whose heading is missing, has no 'day month-name year' or
\* does not parse once its month is translated gets the date
\* 'UNKNOWN_DATE': the timestamp of each of its messages begins with
\* 'UNKNOWN_DATE', and its messages are extracted, attributed and retained
\* as they are under a date that parses.
UnknownDateAndContinue ==
    pc = "rows" /\ session_h2 \in UnparseableHeadings =>
        /\ session_date = <<"U","N","K","N","O","W","N","_","D","A","T","E">>
        /\ last_row.kind \in {"kept", "filtered"} =>
              StartsWith(last_row.full_timestamp,
                         <<"U","N","K","N","O","W","N","_","D","A","T","E">>)
        /\ last_row.kind # "none" =>
              LET dated == RowResult(last_row.row, TwelfthOfJanuary,
                                     canonical_participant_map,
                                     user_identifier)
              IN  /\ dated.kind = last_row.kind
                  /\ dated.identified = last_row.identified
                  /\ dated.from = last_row.from
        /\ last_row.kind = "kept" =>
              /\ session_conversations # <<>>
              /\ session_conversations[Len(session_conversations)] =
                    [from |-> last_row.from,
                     value |-> last_row.row.td.text]

\* a message of a session headed "31 fevrier 2005" is attributed and kept
KeptUnderFevrier31 ==
    /\ pc = "rows"
    /\ session_h2 = Tag(HeadingFevrier31)
    /\ last_row.kind = "kept"
    /\ last_row.identified.found
    /\ session_conversations # <<>>

\* entry, read into an empty map, registers key for an identifier other
\* than id
RegistersForAnother(entry, key, id) ==
    LET map == AddParticipant(<<>>, entry) IN
    \E i \in DOMAIN map : map[i].key = key /\ map[i].id # id

\* a message of 'Jane D. :' is kept in a session whose roster lists Jane Doe
JaneDWritesToJaneDoesSession ==
    /\ pc = "rows"
    /\ \E i \in DOMAIN session_roster : session_roster[i] = EntryJaneDoe
    /\ last_row.kind = "kept"
    /\ last_row.row.th.text = SenderJaneD

ResolvedToJaneDoeByName ==
    /\ last_row.identified.found
    /\ last_row.identified.id = IdJaneDoe
    /\ last_row.identified.step \in {1, 2}

\* C9, as stated: in a session whose roster contains the entry
\* 'Jane Doe (jane.doe@example.com)', a message whose sender cell renders
\* 'Jane D. :' is attributed to 'jane.doe@example.com' by the lookup of the
\* heavily-normalized name or of its first token.
JaneDResolvesWheneverListed ==
    JaneDWritesToJaneDoesSession => ResolvedToJaneDoeByName

\* C9, with the roster it needs: the same, in a session in which no entry
\* before Jane Doe's registers the key 'jane' for another identifier and no
\* entry registers the key 'jane d' for another identifier.
JaneDResolvesToJaneDoe ==
    /\ JaneDWritesToJaneDoesSession
    /\ \E i \in DOMAIN session_roster :
          /\ session_roster[i] = EntryJaneDoe
          /\ \A j \in 1..(i - 1) :
                ~RegistersForAnother(session_roster[j], KeyJane, IdJaneDoe)
    /\ \A j \in DOMAIN session_roster :
          ~RegistersForAnother(session_roster[j], KeyJaneD, IdJaneDoe)
    => ResolvedToJaneDoeByName

\* 'Jane D. :' is resolved by its first token after another participant
JaneDAfterBob ==
    /\ JaneDWritesToJaneDoesSession
    /\ session_roster = <<EntryBob, EntryJaneDoe>>
    /\ last_row.identified.id = IdJaneDoe
    /\ last_row.identified.step = 2

\* C10: two distinct .html files of one batch write disjoint sets of
\* output paths, so no document's output is overwritten by another's.
OutputPathsDisjoint ==
    \A w1, w2 \in written : w1[2] = w2[2] => w1[1] = w2[1]

==============================================================================
